---- MODULE Spec2Model ----
(***************************************************************************)
(* Model of database/init_db.py: the SQLite initializer of the Smart To-Do *)
(* List app.  One run of main() is a sequence of statements on one         *)
(* connection; between runs the application works on the same database     *)
(* file through the tables the initializer created.                        *)
(*                                                                         *)
(* The database is modelled by its committed content (disk) and by the     *)
(* content the open connection sees (db), which differ while a             *)
(* transaction is open.  Python's sqlite3 module (default isolation        *)
(* level) opens a transaction before INSERT/UPDATE/DELETE only; a CREATE   *)
(* statement outside a transaction is committed by itself.                 *)
(*                                                                         *)
(* Columns the initializer never reads or sets explicitly (description,    *)
(* created_at, updated_at) are left out of the rows.                       *)
(***************************************************************************)
EXTENDS Integers, Sequences, FiniteSets, TLC

\* Number of operations (runs of main and accepted application statements)
\* in one behaviour.
MaxSteps == 3

(***************************************************************************)
(* Values                                                                  *)
(***************************************************************************)

\* A nullable INTEGER column holds <<>> (NULL) or <<n>>.
Null == <<>>

Val(n) == <<n>>

\* TEXT values of the name column are sequences of characters, so that the
\* collation can be computed character by character.
Personal == <<"P", "e", "r", "s", "o", "n", "a", "l">>

Work == <<"W", "o", "r", "k">>

Shopping == <<"S", "h", "o", "p", "p", "i", "n", "g">>

Health == <<"H", "e", "a", "l", "t", "h">>

\* Names the application uses for its own categories.
work == <<"w", "o", "r", "k">>

UpperEcole == <<"É", "c", "o", "l", "e">>

LowerEcole == <<"é", "c", "o", "l", "e">>

AppCategoryNames == {work, UpperEcole, LowerEcole}

UserColor == "#000000"

\* SQLite's NOCASE collation folds the 26 upper case characters of ASCII
\* and no other character.
AsciiUpperToLower ==
    ("A" :> "a") @@ ("B" :> "b") @@ ("C" :> "c") @@ ("D" :> "d") @@
    ("E" :> "e") @@ ("F" :> "f") @@ ("G" :> "g") @@ ("H" :> "h") @@
    ("I" :> "i") @@ ("J" :> "j") @@ ("K" :> "k") @@ ("L" :> "l") @@
    ("M" :> "m") @@ ("N" :> "n") @@ ("O" :> "o") @@ ("P" :> "p") @@
    ("Q" :> "q") @@ ("R" :> "r") @@ ("S" :> "s") @@ ("T" :> "t") @@
    ("U" :> "u") @@ ("V" :> "v") @@ ("W" :> "w") @@ ("X" :> "x") @@
    ("Y" :> "y") @@ ("Z" :> "z")

AsciiLower(c) ==
    IF c \in DOMAIN AsciiUpperToLower THEN AsciiUpperToLower[c] ELSE c

\* The name column's BINARY alternative: no folding at all.
BinaryKey(s) == s

\* name TEXT NOT NULL COLLATE NOCASE: the key under which names compare.
NoCase(s) == [k \in DOMAIN s |-> AsciiLower(s[k])]

(***************************************************************************)
(* Schema                                                                  *)
(***************************************************************************)

\* The CREATE statements of _create_schema, in order.  A table created with
\* AUTOINCREMENT brings the internal table sqlite_sequence with it, and
\* UNIQUE(name) brings an automatic index.
SchemaStatements ==
    << [kind |-> "table", name |-> "categories", on |-> "",
        implied |-> {"sqlite_sequence"},
        autoindex |-> {"sqlite_autoindex_categories_1"}],
       [kind |-> "table", name |-> "tasks", on |-> "",
        implied |-> {"sqlite_sequence"}, autoindex |-> {}],
       [kind |-> "index", name |-> "idx_tasks_category_id", on |-> "tasks",
        implied |-> {}, autoindex |-> {}],
       [kind |-> "index", name |-> "idx_tasks_due_at", on |-> "tasks",
        implied |-> {}, autoindex |-> {}],
       [kind |-> "index", name |-> "idx_tasks_is_completed", on |-> "tasks",
        implied |-> {}, autoindex |-> {}],
       [kind |-> "index", name |-> "idx_tasks_completed_at", on |-> "tasks",
        implied |-> {}, autoindex |-> {}],
       [kind |-> "index", name |-> "idx_tasks_created_at", on |-> "tasks",
        implied |-> {}, autoindex |-> {}],
       [kind |-> "index", name |-> "idx_categories_sort_order",
        on |-> "categories", implied |-> {}, autoindex |-> {}] >>

\* The database file when absent or empty.
EmptyDb ==
    [tables |-> {}, indexes |-> {}, categories |-> {}, tasks |-> {},
     seq |-> [categories |-> 0, tasks |-> 0]]

\* CREATE TABLE IF NOT EXISTS / CREATE INDEX IF NOT EXISTS.
ExecCreate(d, st) ==
    IF st.kind = "table"
    THEN IF st.name \in d.tables
         THEN d
         ELSE [d EXCEPT !.tables = @ \cup {st.name} \cup st.implied,
                        !.indexes = @ \cup st.autoindex]
    ELSE IF st.name \in d.indexes
         THEN d
         ELSE [d EXCEPT !.indexes = @ \cup {st.name}]

\* A CREATE INDEX needs its table.
CreateAccepted(d, st) == st.kind = "index" => st.on \in d.tables

\* is_completed IN (0,1); completed_at IS NULL OR is_completed = 1;
\* due_at IS NULL OR due_at >= 0.
TaskChecks(t) ==
    /\ t.is_completed \in {0, 1}
    /\ IF t.completed_at = Null THEN TRUE ELSE t.is_completed = 1
    /\ IF t.due_at = Null THEN TRUE ELSE t.due_at[1] >= 0

\* FOREIGN KEY(category_id) REFERENCES categories(id), enforced when the
\* connection has foreign keys on.
ForeignKeyOk(d, t, fkOn) ==
    IF fkOn /\ t.category_id # Null
    THEN t.category_id[1] \in {c.id : c \in d.categories}
    ELSE TRUE

Max(S) == CHOOSE x \in S : \A y \in S : y <= x

\* INTEGER PRIMARY KEY AUTOINCREMENT: one more than the largest id the
\* table ever held.
NextId(d, tbl) ==
    LET ids == {r.id : r \in (IF tbl = "categories" THEN d.categories ELSE d.tasks)}
    IN  Max(ids \cup {d.seq[tbl]}) + 1

\* A table without the UNIQUE(name) constraint: no name ever conflicts.
NoConflicts(d, name, self) == {}

\* UNIQUE(name) on a NOCASE column: the rows an insert or rename of `name`
\* conflicts with (other than the row `self`).
NameConflicts(d, name, self) ==
    {c \in d.categories : c.id # self /\ NoCase(c.name) = NoCase(name)}

(***************************************************************************)
(* Statements                                                              *)
(***************************************************************************)

\* The rows of _seed_data.
SeedCategories ==
    << [name |-> Personal, color |-> "#10B981", sort_order |-> 0],
       [name |-> Work, color |-> "#374151", sort_order |-> 1],
       [name |-> Shopping, color |-> "#9CA3AF", sort_order |-> 2],
       [name |-> Health, color |-> "#EF4444", sort_order |-> 3] >>

SeedTasks ==
    << [title |-> "Welcome to Smart To-Do", category |-> Personal, priority |-> 0],
       [title |-> "Plan your week", category |-> Work, priority |-> 1],
       [title |-> "Buy groceries", category |-> Shopping, priority |-> 0] >>

CategoryRow(id, c) ==
    [id |-> id, name |-> c.name, color |-> c.color, sort_order |-> c.sort_order]

\* INSERT OR REPLACE: the conflicting rows are deleted and the new row is
\* inserted.
InsertOrReplaceCategory(d, c) ==
    LET id == NextId(d, "categories")
    IN  [d EXCEPT !.categories =
                      (@ \ NameConflicts(d, c.name, 0)) \cup {CategoryRow(id, c)},
                  !.seq.categories = id]

\* INSERT OR IGNORE INTO categories (name, color, sort_order): a row whose
\* name conflicts is skipped, without an error.  The skipped insert has
\* already drawn its id from sqlite_sequence.
InsertOrIgnoreCategory(d, c) ==
    LET id == NextId(d, "categories")
    IN  IF NameConflicts(d, c.name, 0) # {}
        THEN [d EXCEPT !.seq.categories = id]
        ELSE [d EXCEPT !.categories = @ \cup {CategoryRow(id, c)},
                       !.seq.categories = id]

\* (SELECT id FROM categories WHERE name = 'x'): the comparison uses the
\* column's collation; no row gives NULL.
SelectCategoryId(d, name) ==
    LET hit == {c \in d.categories : NoCase(c.name) = NoCase(name)}
    IN  IF hit = {} THEN Null ELSE Val((CHOOSE c \in hit : TRUE).id)

\* The row an INSERT INTO tasks (title, ..., due_at, is_completed,
\* category_id, priority) makes; completed_at is not given and is NULL
\* unless the application gives it.
TaskRow(id, t) ==
    [id |-> id, title |-> t.title, due_at |-> t.due_at,
     is_completed |-> t.is_completed, completed_at |-> t.completed_at,
     category_id |-> t.category_id, priority |-> t.priority]

TaskAccepted(d, t, fkOn) == TaskChecks(t) /\ ForeignKeyOk(d, t, fkOn)

InsertTask(d, t) ==
    LET id == NextId(d, "tasks")
    IN  [d EXCEPT !.tasks = @ \cup {TaskRow(id, t)}, !.seq.tasks = id]

\* The starter task number k of _seed_data.
StarterTask(d, k) ==
    [title |-> SeedTasks[k].title, due_at |-> Null, is_completed |-> 0,
     completed_at |-> Null,
     category_id |-> SelectCategoryId(d, SeedTasks[k].category),
     priority |-> SeedTasks[k].priority]

\* SELECT COUNT(*) FROM tasks
CountTasks(d) == Cardinality(d.tasks)

SeedWheneverFewTasks(task_count) == task_count < Len(SeedTasks)

\* if task_count == 0
ShouldSeedTasks(task_count) == task_count = 0

\* A variant of the table count that forgets the name filter.
AllTableCount(d) == Cardinality(d.tables)

\* name NOT LIKE 'sqlite_%': in LIKE, _ stands for any one character.
\* Of the names this schema creates, only sqlite_sequence matches.
InternalName(n) == n \in {"sqlite_sequence"}

\* SELECT COUNT(*) FROM sqlite_master WHERE type='table' AND name NOT LIKE 'sqlite_%'
UserTableCount(d) == Cardinality({n \in d.tables : ~InternalName(n)})

\* ON DELETE CASCADE, which the schema does not use.
OnDeleteCascade(tasks, id) == {t \in tasks : t.category_id # Val(id)}

\* ON DELETE SET NULL
OnDeleteSetNull(tasks, id) ==
    {IF t.category_id = Val(id) THEN [t EXCEPT !.category_id = Null] ELSE t :
        t \in tasks}

\* DELETE FROM categories WHERE id = ?
DeleteCategory(d, id, fkOn) ==
    [d EXCEPT !.categories = {c \in @ : c.id # id},
              !.tasks = IF fkOn THEN OnDeleteSetNull(@, id) ELSE @]

(***************************************************************************)
(* State                                                                   *)
(***************************************************************************)

VARIABLES
    disk,        \* the committed content of myapp.db
    db,          \* the content the connection of the run sees
    pc,          \* the position of main(); "idle" when no process runs
    i,           \* the statement the position is at (schema, seeds, files)
    handle,      \* conn: "none", "open" or "closed"
    fk,          \* PRAGMA foreign_keys of the connection
    inTxn,       \* conn.in_transaction
    task_count,  \* the local variable of _seed_data
    report,      \* <<table_count, categories_count, tasks_count>>, or <<>>
    written,     \* the descriptor files this run has written
    err,         \* the position at which this run raised, or ""
    committed,   \* conn.commit() has returned in this run
    pre,         \* the committed content when this run started
    prev,        \* how the last run ended, "none" after an application statement
    second,      \* this run started right after a successful run
    steps        \* operations so far

vars ==
    <<disk, db, pc, i, handle, fk, inTxn, task_count, report, written, err,
      committed, pre, prev, second, steps>>

\* What the process holds; it is gone when the process exits.
locals == <<db, i, handle, fk, inTxn, task_count, report, written, err, committed>>

DescriptorFiles == <<"db_connection.txt", "db_visualizer/sqlite.env">>

Init ==
    /\ disk = EmptyDb
    /\ db = EmptyDb
    /\ pc = "idle"
    /\ i = 1
    /\ handle = "none"
    /\ fk = FALSE
    /\ inTxn = FALSE
    /\ task_count = 0
    /\ report = <<>>
    /\ written = {}
    /\ err = ""
    /\ committed = FALSE
    /\ pre = EmptyDb
    /\ prev = "none"
    /\ second = FALSE
    /\ steps = 0

(***************************************************************************)
(* A run of main()                                                         *)
(***************************************************************************)

\* The process starts.
Start ==
    /\ pc = "idle"
    /\ steps < MaxSteps
    /\ pc' = "connect"
    /\ steps' = steps + 1
    /\ pre' = disk
    /\ second' = (prev = "ok")
    /\ UNCHANGED <<disk, locals, prev>>

\* _connect: sqlite3.connect(db_path)
Connect ==
    /\ pc = "connect"
    /\ handle' = "open"
    /\ db' = disk
    /\ pc' = "pragma"
    /\ UNCHANGED <<disk, i, fk, inTxn, task_count, report, written, err,
                   committed, pre, prev, second, steps>>

\* _connect: conn.execute("PRAGMA foreign_keys = ON")
EnableForeignKeys ==
    /\ pc = "pragma"
    /\ fk' = TRUE
    /\ pc' = "cursor"
    /\ UNCHANGED <<disk, db, i, handle, inTxn, task_count, report, written,
                   err, committed, pre, prev, second, steps>>

\* main: cursor = conn.cursor(), the first statement inside try
OpenCursor ==
    /\ pc = "cursor"
    /\ pc' = "schema"
    /\ i' = 1
    /\ UNCHANGED <<disk, db, handle, fk, inTxn, task_count, report, written,
                   err, committed, pre, prev, second, steps>>

\* _create_schema: statement i.  No transaction is open, so the statement
\* is committed as it is executed.
CreateSchemaStep ==
    /\ pc = "schema"
    /\ CreateAccepted(db, SchemaStatements[i])
    /\ db' = ExecCreate(db, SchemaStatements[i])
    /\ disk' = IF inTxn THEN disk ELSE ExecCreate(db, SchemaStatements[i])
    /\ IF i < Len(SchemaStatements)
       THEN /\ i' = i + 1
            /\ pc' = "schema"
       ELSE /\ i' = 1
            /\ pc' = "seed_categories"
    /\ UNCHANGED <<handle, fk, inTxn, task_count, report, written, err,
                   committed, pre, prev, second, steps>>

\* _seed_data: the INSERT OR IGNORE of category i.  The first INSERT opens
\* the transaction.
SeedCategoryStep ==
    /\ pc = "seed_categories"
    /\ inTxn' = TRUE
    /\ db' = InsertOrIgnoreCategory(db, SeedCategories[i])
    /\ IF i < Len(SeedCategories)
       THEN /\ i' = i + 1
            /\ pc' = "seed_categories"
       ELSE /\ i' = 1
            /\ pc' = "count"
    /\ UNCHANGED <<disk, handle, fk, task_count, report, written, err,
                   committed, pre, prev, second, steps>>

\* _seed_data: SELECT COUNT(*) FROM tasks, and the test of task_count
CountTasksStep ==
    /\ pc = "count"
    /\ task_count' = CountTasks(db)
    /\ pc' = IF ShouldSeedTasks(CountTasks(db)) THEN "seed_tasks" ELSE "commit"
    /\ UNCHANGED <<disk, db, i, handle, fk, inTxn, report, written, err,
                   committed, pre, prev, second, steps>>

\* _seed_data: the INSERT of starter task i
SeedTaskStep ==
    /\ pc = "seed_tasks"
    /\ TaskAccepted(db, StarterTask(db, i), fk)
    /\ db' = InsertTask(db, StarterTask(db, i))
    /\ IF i < Len(SeedTasks)
       THEN /\ i' = i + 1
            /\ pc' = "seed_tasks"
       ELSE /\ i' = 1
            /\ pc' = "commit"
    /\ UNCHANGED <<disk, handle, fk, inTxn, task_count, report, written, err,
                   committed, pre, prev, second, steps>>

\* main: conn.commit()
Commit ==
    /\ pc = "commit"
    /\ disk' = db
    /\ inTxn' = FALSE
    /\ committed' = TRUE
    /\ pc' = "report"
    /\ UNCHANGED <<db, i, handle, fk, task_count, report, written, err, pre,
                   prev, second, steps>>

\* main: the three counts
Report ==
    /\ pc = "report"
    /\ report' = <<UserTableCount(db), Cardinality(db.categories), Cardinality(db.tasks)>>
    /\ pc' = "finally"
    /\ UNCHANGED <<disk, db, i, handle, fk, inTxn, task_count, written, err,
                   committed, pre, prev, second, steps>>

\* A variant of main that writes the descriptor files whatever happened.
AfterFinallyAlways(e) == "write"

\* Leaving the finally block: an exception raised inside try goes on.
AfterFinally(e) == IF e = "" THEN "write" ELSE "aborted"

\* main: finally: conn.close().  An open transaction is rolled back.
Close ==
    /\ pc = "finally"
    /\ handle' = "closed"
    /\ inTxn' = FALSE
    /\ db' = disk
    /\ pc' = AfterFinally(err)
    /\ i' = 1
    /\ UNCHANGED <<disk, fk, task_count, report, written, err, committed,
                   pre, prev, second, steps>>

\* _write_connection_files: file i
WriteConnectionFile ==
    /\ pc = "write"
    /\ written' = written \cup {DescriptorFiles[i]}
    /\ IF i < Len(DescriptorFiles)
       THEN /\ i' = i + 1
            /\ pc' = "write"
       ELSE /\ i' = 1
            /\ pc' = "done"
    /\ UNCHANGED <<disk, db, handle, fk, inTxn, task_count, report, err,
                   committed, pre, prev, second, steps>>

\* The statements of main inside try ... finally.
InTry == {"cursor", "schema", "seed_categories", "count", "seed_tasks", "commit", "report"}

\* Where an exception raised at position p takes main.
OnError(p) == IF p \in InTry THEN "finally" ELSE "aborted"

\* The call at the current position raises.  A statement that fails changes
\* nothing; an exception outside try ends the process at once, and what a
\* transaction had not committed is lost.
Raise ==
    /\ pc \in {"connect", "pragma", "finally", "write"} \cup InTry
    /\ err' = IF err = "" THEN pc ELSE err
    /\ pc' = OnError(pc)
    /\ inTxn' = IF OnError(pc) = "aborted" THEN FALSE ELSE inTxn
    /\ db' = IF OnError(pc) = "aborted" THEN disk ELSE db
    /\ UNCHANGED <<disk, i, handle, fk, task_count, report, written,
                   committed, pre, prev, second, steps>>

\* The process exits: normally after "done", with the exception otherwise.
Exit ==
    /\ pc \in {"done", "aborted"}
    /\ prev' = IF pc = "done" THEN "ok" ELSE "failed"
    /\ pc' = "idle"
    /\ db' = disk
    /\ i' = 1
    /\ handle' = "none"
    /\ fk' = FALSE
    /\ inTxn' = FALSE
    /\ task_count' = 0
    /\ report' = <<>>
    /\ written' = {}
    /\ err' = ""
    /\ committed' = FALSE
    /\ pre' = EmptyDb
    /\ second' = FALSE
    /\ UNCHANGED <<disk, steps>>

Run ==
    \/ Start
    \/ Connect
    \/ EnableForeignKeys
    \/ OpenCursor
    \/ CreateSchemaStep
    \/ SeedCategoryStep
    \/ CountTasksStep
    \/ SeedTaskStep
    \/ Commit
    \/ Report
    \/ Close
    \/ WriteConnectionFile
    \/ Raise
    \/ Exit

(***************************************************************************)
(* The application, between runs.  It works through a connection opened as *)
(* _connect opens it (foreign keys on); each statement is committed by     *)
(* itself.  A statement the tables reject changes nothing and is no step.  *)
(***************************************************************************)

\* The rows the application tries to insert into tasks.
AppTaskInputs ==
    { [title |-> "User task", due_at |-> du, is_completed |-> ic,
       completed_at |-> ca, category_id |-> Null, priority |-> 0] :
          du \in {Null}, ic \in {0, 1, 2}, ca \in {Null, Val(5)} }
    \cup
    { [title |-> "User task", due_at |-> du, is_completed |-> 0,
       completed_at |-> Null, category_id |-> cat, priority |-> 0] :
          du \in {Val(-1), Val(0)}, cat \in {Null} }
    \cup
    { [title |-> "User task", due_at |-> Null, is_completed |-> 0,
       completed_at |-> Null, category_id |-> cat, priority |-> 0] :
          cat \in {Val(1), Val(99)} }

\* What every application statement does besides its effect on the tables.
AppStep ==
    /\ pc = "idle"
    /\ steps < MaxSteps
    /\ steps' = steps + 1
    /\ prev' = "none"
    /\ UNCHANGED <<pc, i, handle, fk, inTxn, task_count, report, written,
                   err, committed, pre, second>>

\* INSERT INTO categories (name, color, sort_order) VALUES (?, ?, ?)
InsertCategory(d, c) ==
    LET id == NextId(d, "categories")
    IN  [d EXCEPT !.categories = @ \cup {CategoryRow(id, c)},
                  !.seq.categories = id]

AppInsertCategory ==
    /\ "categories" \in disk.tables
    /\ \E name \in AppCategoryNames :
          /\ NameConflicts(disk, name, 0) = {}
          /\ disk' = InsertCategory(disk, [name |-> name, color |-> UserColor,
                                            sort_order |-> 9])
    /\ db' = disk'
    /\ AppStep

\* UPDATE categories SET name = ? WHERE id = ?
AppRenameCategory ==
    /\ \E c \in disk.categories, name \in AppCategoryNames :
          /\ name # c.name
          /\ NameConflicts(disk, name, c.id) = {}
          /\ disk' = [disk EXCEPT !.categories =
                          (@ \ {c}) \cup {[c EXCEPT !.name = name]}]
    /\ db' = disk'
    /\ AppStep

\* UPDATE categories SET color = ?, sort_order = ? WHERE id = ?
AppRecolorCategory ==
    /\ \E c \in disk.categories :
          /\ c.color # UserColor
          /\ disk' = [disk EXCEPT !.categories =
                          (@ \ {c}) \cup {[c EXCEPT !.color = UserColor,
                                                    !.sort_order = 9]}]
    /\ db' = disk'
    /\ AppStep

\* DELETE FROM categories WHERE id = ?
AppDeleteCategory ==
    /\ \E c \in disk.categories : disk' = DeleteCategory(disk, c.id, TRUE)
    /\ db' = disk'
    /\ AppStep

\* INSERT INTO tasks (...) VALUES (...)
AppInsertTask ==
    /\ "tasks" \in disk.tables
    /\ \E t \in AppTaskInputs :
          /\ TaskAccepted(disk, t, TRUE)
          /\ disk' = InsertTask(disk, t)
    /\ db' = disk'
    /\ AppStep

\* UPDATE tasks SET is_completed = ?, completed_at = ? WHERE id = ?
AppUpdateTask ==
    /\ \E t \in disk.tasks, ic \in {0, 1}, ca \in {Null, Val(5)} :
          LET u == [t EXCEPT !.is_completed = ic, !.completed_at = ca]
          IN  /\ u # t
              /\ TaskChecks(u)
              /\ disk' = [disk EXCEPT !.tasks = (@ \ {t}) \cup {u}]
    /\ db' = disk'
    /\ AppStep

\* DELETE FROM tasks WHERE id = ?
AppDeleteTask ==
    /\ \E t \in disk.tasks : disk' = [disk EXCEPT !.tasks = @ \ {t}]
    /\ db' = disk'
    /\ AppStep

App ==
    \/ AppInsertCategory
    \/ AppRenameCategory
    \/ AppRecolorCategory
    \/ AppDeleteCategory
    \/ AppInsertTask
    \/ AppUpdateTask
    \/ AppDeleteTask

Next == Run \/ App


Spec == Init /\ [][Next]_vars

(***************************************************************************)
(* Properties                                                              *)
(***************************************************************************)

\* A name with its ASCII letters in lower case.
AsciiFold(s) == [j \in DOMAIN s |-> AsciiLower(s[j])]

\* The rows of d whose name equals `name` ignoring the case of ASCII letters.
SameAsciiName(d, name) ==
    {c \in d.categories : AsciiFold(c.name) = AsciiFold(name)}

\* The positions after Connect and up to the return of Commit.
BeforeCommitReturns ==
    {"pragma", "cursor", "schema", "seed_categories", "count", "seed_tasks", "commit"}

\* C1: a run that fails after Connect and before Commit returns leaves the
\* committed database exactly as it was when the run started: no table,
\* index or row of the failed run remains.
C1_AllOrNothing ==
    (pc = "aborted" /\ err \in BeforeCommitReturns) => disk = pre

\* C2: a successful run that directly follows a successful run leaves the
\* category rows and the task rows exactly as they were, and the schema
\* still holds the categories table and the tasks table, once each, as
\* before.
C2_SecondRunChangesNothing ==
    (second /\ pc \in {"report", "finally", "write", "done"} /\ err = "") =>
        /\ disk.categories = pre.categories
        /\ disk.tasks = pre.tasks
        /\ disk.tables = pre.tables
        /\ disk.indexes = pre.indexes
        /\ UserTableCount(disk) = 2
        /\ {"categories", "tasks"} \subseteq disk.tables

\* C2 witness: the second of two successful runs in a row has ended, on
\* the seeded database.
C2_Witness ==
    /\ second
    /\ pc = "done"
    /\ Cardinality(disk.categories) = 4
    /\ Cardinality(disk.tasks) = 3

\* C3: in every reachable state of the tasks table, completed_at is NULL
\* exactly when is_completed = 0, and due_at is NULL or not negative.
C3_CompletionIffTimestamp ==
    \A t \in disk.tasks :
        /\ (t.completed_at = Null) <=> (t.is_completed = 0)
        /\ IF t.due_at = Null THEN TRUE ELSE t.due_at[1] >= 0

\* C4: a run never updates or deletes a row: every category row and every
\* task row the database held when the run started is still there, with
\* every column unchanged, at every point of the run and after it, both in
\* the committed database and in what the connection sees.
C4_RunOnlyAddsRows ==
    pc # "idle" =>
        /\ pre.categories \subseteq disk.categories
        /\ pre.tasks \subseteq disk.tasks
        /\ pre.categories \subseteq db.categories
        /\ pre.tasks \subseteq db.tasks

\* C4 witness: a run has ended on a database in which the user had changed
\* the colour and the sort order of the seed category Work.
C4_Witness ==
    /\ pc = "done"
    /\ \E c \in pre.categories :
          c.name = Work /\ c.color = UserColor /\ c.sort_order = 9
    /\ Cardinality(pre.tasks) = 3

\* The database holds, in some ASCII casing, every seed category name.
SeedNamesPresent(d) ==
    \A k \in DOMAIN SeedCategories : SameAsciiName(d, SeedCategories[k].name) # {}

\* C5: a run that finds at least one task row inserts no task row, at no
\* point of the run; and when the four seed names are all present it
\* inserts no category row either.
C5_StarterTasksOnlyWhenEmpty ==
    (pc # "idle" /\ pre.tasks # {}) =>
        /\ db.tasks = pre.tasks
        /\ disk.tasks = pre.tasks
        /\ SeedNamesPresent(pre) =>
              /\ Cardinality(db.categories) = Cardinality(pre.categories)
              /\ Cardinality(disk.categories) = Cardinality(pre.categories)

\* C5 witness: run once, insert a fourth task, run again: 4 tasks and 4
\* categories.
C5_Witness ==
    /\ pc = "done"
    /\ \E t \in pre.tasks : t.title = "User task"
    /\ Cardinality(pre.tasks) = 4
    /\ Cardinality(disk.tasks) = 4
    /\ Cardinality(disk.categories) = 4

\* The ids of the category rows a step removes.
DeletedCategoryIds ==
    {c.id : c \in disk.categories} \ {c.id : c \in disk'.categories}

\* C6: a step that deletes a category row deletes no task, sets
\* category_id to NULL on exactly the tasks that referenced the deleted
\* row, leaves every other task as it was, and afterwards every task's
\* category_id is NULL or the id of an existing category.
C6_DeleteCategorySetsNull ==
    [][DeletedCategoryIds # {} =>
         /\ {t.id : t \in disk'.tasks} = {t.id : t \in disk.tasks}
         /\ \A t \in disk.tasks :
               IF t.category_id # Null /\ t.category_id[1] \in DeletedCategoryIds
               THEN [t EXCEPT !.category_id = Null] \in disk'.tasks
               ELSE t \in disk'.tasks
         /\ \A t \in disk'.tasks :
               IF t.category_id = Null
               THEN TRUE
               ELSE t.category_id[1] \in {c.id : c \in disk'.categories}]_vars

\* C6 witness: the category of the starter task "Plan your week" has been
\* deleted: the task is still there, with no category, and the two other
\* starter tasks still have theirs.
C6_Witness ==
    /\ Cardinality(disk.categories) = 3
    /\ Cardinality(disk.tasks) = 3
    /\ \E t \in disk.tasks : t.title = "Plan your week" /\ t.category_id = Null
    /\ \A t \in disk.tasks : t.title # "Plan your week" => t.category_id # Null

\* C7: no execution that opened the database handle ends with the handle
\* still open.
C7_HandleReleased ==
    pc \in {"done", "aborted"} => handle # "open"

\* C8: a descriptor file is written only after the handle was closed, and
\* so after Commit and the Report reads, none of which had failed; once
\* the handle is closed no statement of the try block runs; and no
\* descriptor file is written in a run in which a step up to Close failed.
C8_DescriptorsAfterClose ==
    /\ (pc = "write" \/ written # {}) =>
          /\ handle = "closed"
          /\ committed
          /\ report # <<>>
          /\ err \in {"", "write"}
    /\ handle = "closed" => pc \notin InTry \cup {"connect", "pragma", "finally"}
    /\ err \in InTry \cup {"connect", "pragma", "finally"} => written = {}

\* C8 witness: a run has written both descriptor files.
C8_Witness ==
    /\ pc = "done"
    /\ written = {"db_connection.txt", "db_visualizer/sqlite.env"}
    /\ handle = "closed"

\* C9: a successful run on an absent or empty database reports 2 tables,
\* 4 categories and 3 tasks; the categories are Personal, Work, Shopping
\* and Health with sort orders 0, 1, 2, 3; the tasks are three, incomplete,
\* without due date or completion time, of priorities 0, 1, 0 and of the
\* categories Personal, Work and Shopping.
C9_FreshRun ==
    (pc = "done" /\ pre = EmptyDb) =>
        /\ report = <<2, 4, 3>>
        /\ Cardinality(disk.categories) = 4
        /\ {<<c.name, c.sort_order>> : c \in disk.categories}
             = {<<Personal, 0>>, <<Work, 1>>, <<Shopping, 2>>, <<Health, 3>>}
        /\ Cardinality(disk.tasks) = 3
        /\ \A t \in disk.tasks :
              /\ t.is_completed = 0
              /\ t.due_at = Null
              /\ t.completed_at = Null
        /\ {<<t.title, t.priority, c.name>> :
                <<t, c>> \in {x \in disk.tasks \X disk.categories :
                                 x[1].category_id = Val(x[2].id)}}
             = {<<"Welcome to Smart To-Do", 0, Personal>>,
                <<"Plan your week", 1, Work>>,
                <<"Buy groceries", 0, Shopping>>}

\* C9 witness: a run on the empty database has ended.
C9_Witness ==
    /\ pc = "done"
    /\ pre = EmptyDb
    /\ disk.tasks # {}

\* Lower case as Unicode has it, for the characters the names use.
UnicodeLower(c) == IF c = "É" THEN "é" ELSE AsciiLower(c)

\* C10 as stated: no two category rows have names that are equal ignoring
\* case.
C10_UniqueIgnoringCase ==
    \A c1, c2 \in disk.categories :
        c1 # c2 =>
            [j \in DOMAIN c1.name |-> UnicodeLower(c1.name[j])]
              # [j \in DOMAIN c2.name |-> UnicodeLower(c2.name[j])]

\* C10 as amended: no two category rows have names that are equal ignoring
\* the case of the ASCII letters; and a run adds no row for a seed name
\* when a row with that name in any ASCII casing exists.
C10_UniqueIgnoringAsciiCase ==
    /\ Cardinality({AsciiFold(c.name) : c \in disk.categories})
         = Cardinality(disk.categories)
    /\ Cardinality({AsciiFold(c.name) : c \in db.categories})
         = Cardinality(db.categories)
    /\ pc # "idle" =>
          \A k \in DOMAIN SeedCategories :
              SameAsciiName(pre, SeedCategories[k].name) # {} =>
                  /\ SameAsciiName(db, SeedCategories[k].name)
                       = SameAsciiName(pre, SeedCategories[k].name)
                  /\ SameAsciiName(disk, SeedCategories[k].name)
                       = SameAsciiName(pre, SeedCategories[k].name)

\* C10 witness: a run has ended on a database that held the row "work" and
\* no row "Work": it has added none.
C10_Witness ==
    /\ pc = "done"
    /\ \E c \in pre.categories : c.name = work
    /\ \A c \in disk.categories : c.name # Work
    /\ disk.categories # pre.categories

====
